---- MODULE Spec2Model ----
(***************************************************************************)
(* A model of xbee/asyncio/base.py: the asyncio XBee driver.  The driver   *)
(* receives chunks of bytes from a serial transport (data_received),       *)
(* reassembles API frames with an APIFrame assembler, and hands each frame *)
(* to the callback, to the future of a suspended wait_read_frame call, or  *)
(* to a deque of frames waiting to be pulled.                              *)
(*                                                                         *)
(* Bytes are integers 0..255.  Python's None for self._frame is the empty  *)
(* sequence and a frame in progress is a one-element sequence; None for    *)
(* self._future is 0 and a future is the index of its pull request.        *)
(***************************************************************************)
EXTENDS Integers, Sequences, FiniteSets, TLC

(***************************************************************************)
(* Bounds of the model.                                                    *)
(***************************************************************************)
MaxItems == 2
MaxPulls == 2
BurstLen == 3

(***************************************************************************)
(* xbee.frame.APIFrame: the wire format and the single-frame assembler.    *)
(***************************************************************************)
START_BYTE == 126
ESCAPE_BYTE == 125
XON_BYTE == 17
XOFF_BYTE == 19
ESCAPE_BYTES == {START_BYTE, ESCAPE_BYTE, XON_BYTE, XOFF_BYTE}

\* byte XOR 0x20: bit 5 is toggled.
Xor20(b) == IF (b \div 32) % 2 = 1 THEN b - 32 ELSE b + 32

RECURSIVE Sum(_)
Sum(s) == IF s = <<>> THEN 0 ELSE Head(s) + Sum(Tail(s))

\* 0xFF minus the low byte of the sum of the payload bytes.
checksum(payload) == 255 - (Sum(payload) % 256)

\* The 2-byte big-endian length field.
len_bytes(payload) == << Len(payload) \div 256, Len(payload) % 256 >>

\* Byte stuffing of escaped mode: a reserved byte becomes the escape marker
\* followed by the byte XOR 0x20.
RECURSIVE escape(_)
escape(s) ==
  IF s = <<>> THEN <<>>
  ELSE (IF Head(s) \in ESCAPE_BYTES THEN << ESCAPE_BYTE, Xor20(Head(s)) >>
                                    ELSE << Head(s) >>) \o escape(Tail(s))

\* The wire bytes of a frame with payload p and trailing checksum byte c:
\* START | LENGTH(2) | PAYLOAD | CHECKSUM, everything after the start marker
\* byte-stuffed in escaped mode.
output(p, c, esc) ==
  LET body == len_bytes(p) \o p \o << c >>
  IN  << START_BYTE >> \o (IF esc THEN escape(body) ELSE body)

\* APIFrame(escaped=esc): no raw bytes yet, no escape pending.
APIFrame(esc) == [raw_data |-> <<>>, escaped |-> esc, unescape_next |-> FALSE]

\* APIFrame.fill: feed one raw byte; in escaped mode the escape marker is
\* swallowed and the byte after it is XORed with 0x20.
fill(f, b) ==
  IF f.unescape_next
    THEN [f EXCEPT !.raw_data = Append(@, Xor20(b)), !.unescape_next = FALSE]
  ELSE IF f.escaped /\ b = ESCAPE_BYTE
    THEN [f EXCEPT !.unescape_next = TRUE]
  ELSE [f EXCEPT !.raw_data = Append(@, b)]

\* The declared payload length: bytes 2 and 3 of the raw data, big-endian.
data_len(f) == f.raw_data[2] * 256 + f.raw_data[3]

\* APIFrame.remaining_bytes: 3 header bytes, then payload and checksum once
\* the length is known, minus what has been received.
remaining_bytes(f) ==
  IF Len(f.raw_data) >= 3
    THEN 3 + data_len(f) + 1 - Len(f.raw_data)
    ELSE 3 - Len(f.raw_data)

\* The payload of a completed frame.
frame_data(f) == SubSeq(f.raw_data, 4, 3 + data_len(f))

\* APIFrame.parse succeeds iff payload sum plus checksum byte is 0xFF mod 256;
\* otherwise it raises ValueError.
verify(f) ==
  (Sum(frame_data(f)) + f.raw_data[Len(f.raw_data)]) % 256 = 255

\* _split_response: the first payload byte is the discriminant, the rest
\* the body.
split_response(d) ==
  [id |-> SubSeq(d, 1, IF Len(d) > 0 THEN 1 ELSE 0), body |-> SubSeq(d, 2, Len(d))]


(***************************************************************************)
(* State.                                                                  *)
(*   escaped, callback  constructor arguments (self._escaped, and whether  *)
(*                      self._callback is set), fixed for the lifetime     *)
(*   cbraises           what the callback does when it is called: returns  *)
(*                      ("none") or raises the exception named             *)
(*   frame, data        self._frame and self._data                         *)
(*   future, queue      self._future and self._queue                       *)
(*   pulls              the wait_read_frame calls, in call order, each     *)
(*                      with its future: pending (suspended), fulfilled    *)
(*                      (set_result has run, the call has not resumed      *)
(*                      yet), done (the call has returned its result) or   *)
(*                      cancelled                                          *)
(*   cblog              the arguments of the callback's invocations        *)
(*   errlog             the arguments of the error callback's invocations  *)
(*   raised             the exception the last call let escape, if any     *)
(*   badsum             how often 'Bad frame checksum' was printed         *)
(*   chkfail            how often parse() failed a frame's checksum        *)
(* History of the run, read by the properties only:                        *)
(*   validated          payload splits whose parse() succeeded, in order   *)
(*   delivered          hand-offs: which frame went to which consumer      *)
(*   returned           frames returned to wait_read_frame calls, in order *)
(*   sent, wire, pos    what the device sends, its bytes, and how many of  *)
(*                      them the transport has delivered                   *)
(*   single             the whole wire arrived in one data_received call   *)
(*   halted             halt() has been called                             *)
(*   lost               connection_lost has been called                    *)
(***************************************************************************)
VARIABLES escaped, callback, frame, data, future, queue, pulls, cblog,
          raised, badsum, validated, delivered, returned,
          sent, wire, pos, single, halted, errlog, lost, cbraises, chkfail

vars == << escaped, callback, frame, data, future, queue, pulls, cblog,
           raised, badsum, validated, delivered, returned,
           sent, wire, pos, single, halted, errlog, lost, cbraises, chkfail >>

\* The driver and its history as one record, so that a call is a function
\* from record to record.
Driver ==
  [frame |-> frame, data |-> data, future |-> future, queue |-> queue,
   pulls |-> pulls, cblog |-> cblog, raised |-> raised, badsum |-> badsum,
   validated |-> validated, delivered |-> delivered, returned |-> returned,
   errlog |-> errlog, chkfail |-> chkfail]

\* The driver after __init__.
NewDriver ==
  [frame |-> <<>>, data |-> <<>>, future |-> 0, queue |-> <<>>,
   pulls |-> <<>>, cblog |-> <<>>, raised |-> "none", badsum |-> 0,
   validated |-> <<>>, delivered |-> <<>>, returned |-> <<>>,
   errlog |-> <<>>, chkfail |-> 0]

Pending == [st |-> "pending", res |-> <<>>]
Fulfilled(info) == [st |-> "fulfilled", res |-> << info >>]
Done(info) == [st |-> "done", res |-> << info >>]
Cancelled == [st |-> "cancelled", res |-> <<>>]

(***************************************************************************)
(* data_received, lines 108-114: hand a frame to the callback, else to the *)
(* future of the suspended wait_read_frame, else to the queue.  What the   *)
(* callback raises propagates.  set_result on a future that is no longer   *)
(* pending raises InvalidStateError; on a pending one it stores the result *)
(* and schedules the suspended call, which resumes in a later step.        *)
(***************************************************************************)
Deliver_QueueFirst(s, info) ==
  IF callback
    THEN [s EXCEPT !.cblog = Append(@, info),
                   !.delivered = Append(@, [info |-> info, to |-> "callback"]),
                   !.raised = cbraises]
  ELSE [s EXCEPT !.queue = Append(@, info),
                 !.delivered = Append(@, [info |-> info, to |-> "backlog"])]

\* Deliver with the branches of lines 108 and 110 exchanged: a registered
\* waiter is served before the callback.
Deliver_WaiterFirst(s, info) ==
  IF s.future # 0
    THEN IF s.pulls[s.future].st = "pending"
           THEN [s EXCEPT !.pulls[s.future] = Fulfilled(info),
                          !.future = 0,
                          !.delivered = Append(@, [info |-> info, to |-> "waiter"])]
           ELSE [s EXCEPT !.raised = "InvalidStateError"]
  ELSE IF callback
    THEN [s EXCEPT !.cblog = Append(@, info),
                   !.delivered = Append(@, [info |-> info, to |-> "callback"]),
                   !.raised = cbraises]
  ELSE [s EXCEPT !.queue = Append(@, info),
                 !.delivered = Append(@, [info |-> info, to |-> "backlog"])]

Deliver(s, info) ==
  IF callback
    THEN [s EXCEPT !.cblog = Append(@, info),
                   !.delivered = Append(@, [info |-> info, to |-> "callback"]),
                   !.raised = cbraises]
  ELSE IF s.future # 0
    THEN IF s.pulls[s.future].st = "pending"
           THEN [s EXCEPT !.pulls[s.future] = Fulfilled(info),
                          !.future = 0,
                          !.delivered = Append(@, [info |-> info, to |-> "waiter"])]
           ELSE [s EXCEPT !.raised = "InvalidStateError"]
  ELSE [s EXCEPT !.queue = Append(@, info),
                 !.delivered = Append(@, [info |-> info, to |-> "backlog"])]

(***************************************************************************)
(* data_received, lines 103-118, for an assembler with no bytes remaining: *)
(* parse, split, deliver a non-empty payload, print 'Bad frame checksum'   *)
(* on any ValueError (a checksum failure, or one raised by the callback),  *)
(* and reset self._frame unless an exception other than ValueError escaped.*)
(***************************************************************************)
Complete_KeepBadFrame(s) ==
  LET f == s.frame[1]
  IN  IF ~verify(f)
        THEN [s EXCEPT !.chkfail = @ + 1, !.badsum = @ + 1]
      ELSE
        LET info == split_response(frame_data(f))
            v    == [s EXCEPT !.validated = Append(@, info)]
            d    == IF frame_data(f) # <<>> THEN Deliver(v, info) ELSE v
        IN  CASE d.raised = "none" -> [d EXCEPT !.frame = <<>>]
              [] d.raised = "ValueError" ->
                   [d EXCEPT !.raised = "none", !.badsum = @ + 1, !.frame = <<>>]
              [] OTHER -> d

Complete(s) ==
  LET f == s.frame[1]
  IN  IF ~verify(f)
        THEN [s EXCEPT !.chkfail = @ + 1, !.badsum = @ + 1, !.frame = <<>>]
      ELSE
        LET info == split_response(frame_data(f))
            v    == [s EXCEPT !.validated = Append(@, info)]
            d    == IF frame_data(f) # <<>> THEN Deliver(v, info) ELSE v
        IN  CASE d.raised = "none" -> [d EXCEPT !.frame = <<>>]
              [] d.raised = "ValueError" ->
                   [d EXCEPT !.raised = "none", !.badsum = @ + 1, !.frame = <<>>]
              [] OTHER -> d

(***************************************************************************)
(* data_received, lines 87-92: with no frame in progress, look for the     *)
(* first start byte, create the assembler and drop the bytes before it.    *)
(***************************************************************************)
StartIndexes(d) == { i \in 1..Len(d) : d[i] = START_BYTE }

Min(S) == CHOOSE x \in S : \A y \in S : x <= y

\* FindStart without line 91: the bytes before the start byte are kept.
FindStart_KeepLeading(s) ==
  IF s.frame = <<>> /\ StartIndexes(s.data) # {}
    THEN [s EXCEPT !.frame = << APIFrame(escaped) >>]
    ELSE s

\* FindStart without the guard of line 87: a start byte in the buffer
\* restarts framing although a frame is in progress.
FindStart_Always(s) ==
  IF StartIndexes(s.data) # {}
    THEN [s EXCEPT !.frame = << APIFrame(escaped) >>,
                   !.data = SubSeq(s.data, Min(StartIndexes(s.data)), Len(s.data))]
    ELSE s

FindStart(s) ==
  IF s.frame = <<>> /\ StartIndexes(s.data) # {}
    THEN [s EXCEPT !.frame = << APIFrame(escaped) >>,
                   !.data = SubSeq(s.data, Min(StartIndexes(s.data)), Len(s.data))]
    ELSE s

(***************************************************************************)
(* data_received, lines 97-101: feed bytes to the assembler while it needs *)
(* them, then drop the bytes fed from self._data.                          *)
(***************************************************************************)
RECURSIVE FillLoop(_, _)
FillLoop(f, d) ==
  IF d # <<>> /\ remaining_bytes(f) > 0
    THEN FillLoop(fill(f, Head(d)), Tail(d))
    ELSE [f |-> f, d |-> d]

\* Fill without line 101: the bytes fed stay in self._data.
Fill_KeepFed(s) ==
  LET r == FillLoop(s.frame[1], s.data)
  IN  [s EXCEPT !.frame = << r.f >>]

Fill(s) ==
  LET r == FillLoop(s.frame[1], s.data)
  IN  [s EXCEPT !.frame = << r.f >>, !.data = r.d]

(***************************************************************************)
(* data_received(data), lines 84-118.                                      *)
(***************************************************************************)
data_received_ResetAlways(s, chunk) ==
  LET s0 == [s EXCEPT !.data = @ \o chunk, !.raised = "none"]
      s1 == FindStart(s0)
  IN  IF s1.frame = <<>> THEN s1
      ELSE LET s2 == Fill(s1)
               s3 == IF remaining_bytes(s2.frame[1]) = 0 THEN Complete(s2) ELSE s2
           IN  IF s3.raised # "none" THEN s3 ELSE [s3 EXCEPT !.frame = <<>>]

data_received(s, chunk) ==
  LET s0 == [s EXCEPT !.data = @ \o chunk, !.raised = "none"]
      s1 == FindStart(s0)
  IN  IF s1.frame = <<>> THEN s1
      ELSE LET s2 == Fill(s1)
           IN  IF remaining_bytes(s2.frame[1]) = 0 THEN Complete(s2) ELSE s2

(***************************************************************************)
(* wait_read_frame, lines 72-82: return the oldest queued frame at once,   *)
(* else create a future, store it in self._future and suspend on it.       *)
(***************************************************************************)
wait_read_frame(s) ==
  IF s.queue # <<>>
    THEN [s EXCEPT !.pulls = Append(@, Done(Head(s.queue))),
                   !.returned = Append(@, Head(s.queue)),
                   !.queue = Tail(@),
                   !.raised = "none"]
    ELSE [s EXCEPT !.pulls = Append(@, Pending),
                   !.future = Len(s.pulls) + 1,
                   !.raised = "none"]


\* wait_read_frame, line 82: the event loop resumes call i, whose future has
\* a result, and the call returns it.
resume(s, i) ==
  [s EXCEPT !.pulls[i] = Done(s.pulls[i].res[1]),
            !.returned = Append(@, s.pulls[i].res[1])]

\* The task of wait_read_frame call i is cancelled before the call has
\* returned: the call ends with CancelledError, and a future still pending
\* is cancelled; self._future is left as it is (lines 81-82).
cancel(s, i) == [s EXCEPT !.pulls[i] = Cancelled]

(***************************************************************************)
(* The device: what it sends.  An item is a well-formed frame, a frame     *)
(* with one payload bit flipped after the checksum was computed, noise     *)
(* bytes without a start byte, or a frame cut short on the wire: its last  *)
(* payload byte and its checksum never arrive.                             *)
(***************************************************************************)
\* 23 41, and a payload that is the start byte (byte-stuffed in escaped mode).
PlainPayload == << 35, 65 >>
MarkerPayload == << 126 >>

\* Bit 0 of byte i flipped.
FlipBit(p, i) == [p EXCEPT ![i] = IF @ % 2 = 1 THEN @ - 1 ELSE @ + 1]

Good(p) == [k |-> "good", p |-> p, c |-> checksum(p)]
Bad(p, i) == [k |-> "bad", p |-> FlipBit(p, i), c |-> checksum(p)]
Noise == [k |-> "noise", p |-> << 0, 155 >>, c |-> 0]
Cut(p) == [k |-> "cut", p |-> p, c |-> checksum(p)]

Items == { Good(MarkerPayload), Bad(PlainPayload, 2) }

\* Noise alone, before a frame and after a frame.
NoiseStreams ==
  { << Noise >>,
    << Noise, Good(MarkerPayload) >>,
    << Good(MarkerPayload), Noise >> }

\* A well-formed frame with an empty payload: alone, after noise, and before
\* a frame with a payload.
EmptyFrameStreams ==
  { << Good(<<>>) >>,
    << Noise, Good(<<>>) >>,
    << Good(<<>>), Good(MarkerPayload) >> }

\* n well-formed frames back-to-back, the two non-empty payloads alternating,
\* beginning with the one named by first (1: PlainPayload).
Burst(n, first) ==
  [i \in 1..n |-> Good(IF i % 2 = first THEN PlainPayload ELSE MarkerPayload)]

\* A frame cut short, followed at once by a well-formed frame.
CutThenGood == << Cut(PlainPayload), Good(MarkerPayload) >>

\* Any mix of up to MaxItems frames, the streams with noise, the streams
\* with an empty frame, a burst of BurstLen frames, or a cut frame followed
\* by a well-formed one.
Streams ==
  UNION { [1..n -> Items] : n \in 1..MaxItems }
    \cup NoiseStreams
    \cup EmptyFrameStreams
    \cup { Burst(BurstLen, 1), CutThenGood }

ItemBytes(it, esc) ==
  LET o == output(it.p, it.c, esc)
  IN  CASE it.k = "noise" -> it.p
        [] it.k = "cut"   -> SubSeq(o, 1, Len(o) - 2)
        [] OTHER          -> o

RECURSIVE StreamBytes(_, _)
StreamBytes(items, esc) ==
  IF items = <<>> THEN <<>>
  ELSE ItemBytes(Head(items), esc) \o StreamBytes(Tail(items), esc)

\* What a callback may do when called: return, raise the exception that
\* line 115 catches, or raise any other exception.
CallbackRaises == { "none", "ValueError", "RuntimeError" }

(***************************************************************************)
(* The state machine.                                                      *)
(***************************************************************************)
Init ==
  /\ escaped \in BOOLEAN
  /\ callback \in BOOLEAN
  /\ sent \in Streams
  /\ wire = StreamBytes(sent, escaped)
  /\ pos = 0
  /\ single = FALSE
  /\ halted = FALSE
  /\ lost = FALSE
  /\ cbraises \in (IF callback THEN CallbackRaises ELSE { "none" })
  /\ chkfail = NewDriver.chkfail
  /\ errlog = NewDriver.errlog
  /\ frame = NewDriver.frame
  /\ data = NewDriver.data
  /\ future = NewDriver.future
  /\ queue = NewDriver.queue
  /\ pulls = NewDriver.pulls
  /\ cblog = NewDriver.cblog
  /\ raised = NewDriver.raised
  /\ badsum = NewDriver.badsum
  /\ validated = NewDriver.validated
  /\ delivered = NewDriver.delivered
  /\ returned = NewDriver.returned

\* The driver becomes s, the result of one call.
Becomes(r) ==
  \E s \in { r } :
    /\ frame' = s.frame
    /\ data' = s.data
    /\ future' = s.future
    /\ queue' = s.queue
    /\ pulls' = s.pulls
    /\ cblog' = s.cblog
    /\ raised' = s.raised
    /\ badsum' = s.badsum
    /\ validated' = s.validated
    /\ delivered' = s.delivered
    /\ returned' = s.returned
    /\ errlog' = s.errlog
    /\ chkfail' = s.chkfail

\* The transport delivers the next k bytes of the wire in one chunk.
DataReceived ==
  \E k \in 1..(Len(wire) - pos) :
    /\ Becomes(data_received(Driver, SubSeq(wire, pos + 1, pos + k)))
    /\ pos' = pos + k
    /\ single' = (pos = 0 /\ k = Len(wire))
    /\ UNCHANGED << escaped, callback, cbraises, sent, wire, halted, lost >>

\* A consumer calls wait_read_frame, which runs to its return or to its
\* await.
WaitReadFrame ==
  /\ Len(pulls) < MaxPulls
  /\ Becomes(wait_read_frame(Driver))
  /\ UNCHANGED << escaped, callback, cbraises, sent, wire, pos, single,
                  halted, lost >>

\* The event loop resumes a call whose future data_received has fulfilled.
Resume ==
  \E i \in 1..Len(pulls) :
    /\ pulls[i].st = "fulfilled"
    /\ Becomes(resume(Driver, i))
    /\ UNCHANGED << escaped, callback, cbraises, sent, wire, pos, single,
                    halted, lost >>

\* A consumer cancels a wait_read_frame call that has not returned yet:
\* suspended on its future, or fulfilled and not yet resumed.
Cancel ==
  \E i \in 1..Len(pulls) :
    /\ pulls[i].st \in { "pending", "fulfilled" }
    /\ Becomes(cancel(Driver, i))
    /\ UNCHANGED << escaped, callback, cbraises, sent, wire, pos, single,
                    halted, lost >>

\* halt(), lines 65-70: the body does nothing.
Halt ==
  /\ halted' = TRUE
  /\ UNCHANGED << escaped, callback, cbraises, frame, data, future, queue,
                  pulls, cblog, raised, badsum, chkfail, validated, delivered,
                  returned, sent, wire, pos, single, errlog, lost >>

\* connection_lost, lines 120-122: prints and asks the event loop to stop.
\* No field of the driver changes, and the loop can be run again.
ConnectionLost ==
  /\ ~lost
  /\ lost' = TRUE
  /\ UNCHANGED << escaped, callback, cbraises, frame, data, future, queue,
                  pulls, cblog, raised, badsum, chkfail, validated, delivered,
                  returned, sent, wire, pos, single, halted, errlog >>

Next ==
  DataReceived \/ WaitReadFrame \/ Resume \/ Cancel \/ Halt \/ ConnectionLost

Spec == Init /\ [][Next]_vars


(***************************************************************************)
(* Vocabulary of the properties.                                           *)
(***************************************************************************)
IsPrefix(a, b) == Len(a) <= Len(b) /\ a = SubSeq(b, 1, Len(a))

\* The frames of a hand-off log.
Infos(log) == [i \in 1..Len(log) |-> log[i].info]

\* The transport has delivered every byte of the wire.
Exhausted == pos = Len(wire)

\* No wait_read_frame call has been cancelled.
NoCancel == \A i \in 1..Len(pulls) : pulls[i].st # "cancelled"

\* The stream is a burst of at least three well-formed, non-empty frames.
IsBurst ==
  /\ Len(sent) >= 3
  /\ \A i \in 1..Len(sent) : sent[i].k = "good" /\ sent[i].p # <<>>

\* The driver after the whole wire has been passed to a new driver in a
\* single data_received call.
Whole == data_received(NewDriver, wire)

(***************************************************************************)
(* C1.  Pull mode: N >= 3 valid frames arrive back-to-back in one          *)
(* data_received chunk and the consumer then calls wait_read_frame: every  *)
(* call made so far has returned the frame of its rank in wire order,      *)
(* without further transport delivery.                                     *)
(***************************************************************************)
C1_BurstPulledInOrder ==
  ( /\ ~callback
    /\ IsBurst
    /\ Exhausted
    /\ single
    /\ NoCancel
    /\ \A i \in 1..Len(delivered) : delivered[i].to = "backlog" )
  => \A i \in 1..Len(pulls) : pulls[i] = Done(split_response(sent[i].p))

(***************************************************************************)
(* C2.  Pull mode, any interleaving of data_received and wait_read_frame:  *)
(* the frames returned to wait_read_frame calls are a prefix of the frames *)
(* in the order their checksums were validated.                            *)
(***************************************************************************)
C2_ReturnedPrefixOfValidated ==
  (~callback /\ NoCancel) => IsPrefix(returned, validated)

(***************************************************************************)
(* C3.  Every frame that passed checksum validation, whatever its payload  *)
(* length, has been handed to exactly one consumer: the hand-offs made are *)
(* exactly the validated frames, one each, in push mode all to the         *)
(* callback and in pull mode all to a waiter or the backlog.               *)
(***************************************************************************)
C3_ValidatedHandedToExactlyOne ==
  /\ Infos(delivered) = validated
  /\ IF callback
       THEN cblog = validated /\ queue = <<>>
       ELSE cblog = <<>>

(***************************************************************************)
(* C4.  One valid frame, its wire bytes split into two or more chunks:     *)
(* once the last byte has arrived, the frames delivered and the frame in   *)
(* progress and residual buffer are those of the single-chunk call: no     *)
(* frame in progress and an empty buffer, whenever the consumer takes the  *)
(* frame without an exception.                                             *)
(***************************************************************************)
C4_SplitFrameSameAsWhole ==
  ( /\ Len(sent) = 1
    /\ sent[1].k = "good"
    /\ Exhausted
    /\ ~single
    /\ NoCancel )
  => /\ Infos(delivered) = Infos(Whole.delivered)
     /\ validated = Whole.validated
     /\ frame = Whole.frame
     /\ data = Whole.data
     /\ Whole.raised = "none" => (frame = <<>> /\ data = <<>>)

\* C4's case: in escaped mode a frame whose payload byte is byte-stuffed
\* has arrived in two or more chunks and has been delivered.
C4_Witness ==
  /\ escaped
  /\ sent = << Good(MarkerPayload) >>
  /\ Exhausted
  /\ ~single
  /\ NoCancel
  /\ Infos(delivered) = << split_response(MarkerPayload) >>

(***************************************************************************)
(* C5.  Noise bytes (no start byte among them) followed by one well-formed *)
(* frame, in any chunking: once the last byte has arrived, exactly one     *)
(* frame has been delivered, with the frame's payload.                     *)
(***************************************************************************)
C5_NoiseThenFrameDelivered ==
  ( /\ Len(sent) = 2
    /\ sent[1].k = "noise"
    /\ sent[2].k = "good"
    /\ Exhausted
    /\ NoCancel )
  => Infos(delivered) = << split_response(sent[2].p) >>

(***************************************************************************)
(* C6.  A data_received call in which a completed frame fails checksum     *)
(* validation delivers nothing: the callback is not invoked, the futures   *)
(* and the waiter are as before, the queue is unchanged, and no frame is   *)
(* in progress afterwards.                                                 *)
(***************************************************************************)
C6_BadChecksumDeliversNothing ==
  [][ chkfail' > chkfail =>
        /\ cblog' = cblog
        /\ pulls' = pulls
        /\ future' = future
        /\ queue' = queue
        /\ delivered' = delivered
        /\ returned' = returned
        /\ frame' = <<>> ]_vars

\* C6's case: a frame failed its checksum while a waiter was pending, and
\* the waiter is still pending.
C6_Witness ==
  /\ chkfail = 1
  /\ sent[1].k = "bad"
  /\ frame = <<>>
  /\ future # 0
  /\ pulls[future].st = "pending"
  /\ delivered = <<>>

(***************************************************************************)
(* C7.  A frame that fails its checksum followed by a valid frame, in any  *)
(* chunking: once the last byte has arrived, the valid frame has been      *)
(* delivered with its payload.                                             *)
(***************************************************************************)
C7_ResyncAfterBadChecksum ==
  ( /\ Len(sent) = 2
    /\ sent[1].k = "bad"
    /\ sent[2].k = "good"
    /\ sent[2].p # <<>>
    /\ Exhausted
    /\ NoCancel )
  => Infos(delivered) = << split_response(sent[2].p) >>

(***************************************************************************)
(* C8.  self._future is never set while self._queue is non-empty.          *)
(***************************************************************************)
C8_WaiterExcludesBacklog == ~(future # 0 /\ queue # <<>>)

\* C8's case: after data_received has delivered a frame, wait_read_frame
\* calls, a cancellation and halt, self._future is set (and the queue is
\* empty).
C8_Witness ==
  /\ ~callback
  /\ halted
  /\ \E i \in 1..Len(pulls) : pulls[i].st = "cancelled"
  /\ Len(delivered) >= 1
  /\ future # 0
  /\ queue = <<>>

(***************************************************************************)
(* C9.  A wait_read_frame call suspended when halt() is called resolves    *)
(* with ChannelHalted instead of staying suspended, and a wait_read_frame  *)
(* call made after halt() is rejected.  Stated as what a finite run can    *)
(* refute: once halt() has been called, a suspended call is not fulfilled  *)
(* with a frame (it is to resolve with ChannelHalted), and a new call ends *)
(* with ChannelHalted at once.                                             *)
(***************************************************************************)
C9_HaltReleasesWaiter ==
  [][ halted =>
        /\ \A i \in 1..Len(pulls) :
             pulls[i].st = "pending" =>
               pulls'[i].st \in { "pending", "cancelled", "ChannelHalted" }
        /\ Len(pulls') = Len(pulls) + 1 =>
             pulls'[Len(pulls')].st = "ChannelHalted" ]_vars

(***************************************************************************)
(* C10.  Pull mode: a wait_read_frame call made while an earlier call is   *)
(* still suspended fails with ConcurrentWaiterError and leaves the first   *)
(* waiter registered.                                                      *)
(***************************************************************************)
C10_SecondWaiterRejected ==
  [][ ( /\ ~callback
        /\ future # 0
        /\ pulls[future].st = "pending"
        /\ Len(pulls') = Len(pulls) + 1 )
      => /\ pulls'[Len(pulls')].st = "ConcurrentWaiterError"
         /\ future' = future
         /\ pulls'[future] = pulls[future] ]_vars

(***************************************************************************)
(* C11.  Pull mode: cancelling a suspended wait_read_frame call clears the *)
(* waiter slot without delivering a frame, and a valid frame completed     *)
(* after the cancellation is not lost: it is placed in the backlog, from   *)
(* where the next wait_read_frame call returns it.  On the data_received   *)
(* step that validates a frame with a payload after a cancellation: the    *)
(* waiter slot does not hold the cancelled call, and with no waiter        *)
(* registered the frame is appended to the backlog.                        *)
(***************************************************************************)
C11_CancelClearsWaiterKeepsFrame ==
  [][ ( /\ ~callback
        /\ ~NoCancel
        /\ Len(validated') = Len(validated) + 1
        /\ validated'[Len(validated')].id # <<>> )
      => /\ future = 0 \/ pulls[future].st = "pending"
         /\ future = 0 => queue' = Append(queue, validated'[Len(validated')]) ]_vars

(***************************************************************************)
(* C12.  Push mode: every checksum-valid frame is passed to the callback   *)
(* inside the data_received call that completes it, in arrival order, and  *)
(* data_received neither appends to the backlog nor fulfils a waiter.  As  *)
(* a step property: a data_received call that validates a frame hands it   *)
(* to the callback before it returns, and no call touches the backlog or   *)
(* completes a wait_read_frame call.                                       *)
(***************************************************************************)
C12_PushModeCallbackGetsEveryFrame ==
  [][ callback =>
        /\ Len(validated') = Len(validated) + 1
             => cblog' = Append(cblog, validated'[Len(validated')])
        /\ Len(validated') = Len(validated) => cblog' = cblog
        /\ queue' = <<>>
        /\ returned' = <<>>
        /\ \A i \in 1..Len(pulls) : pulls'[i].st \notin { "fulfilled", "done" } ]_vars

(***************************************************************************)
(* C13.  Push mode with an error callback registered beside the callback:  *)
(* each frame that fails its checksum invokes the error callback exactly   *)
(* once with the error, so the error callback has been invoked as often as *)
(* a checksum has failed.                                                  *)
(***************************************************************************)
C13_ErrorCallbackPerBadChecksum ==
  callback => Len(errlog) = chkfail

(***************************************************************************)
(* C14.  connection_lost halts the channel: a wait_read_frame call that is *)
(* suspended when the transport reports the loss resolves with             *)
(* ChannelHalted.  Stated as what a finite run can refute: the call of     *)
(* connection_lost made while a call is suspended halts the channel, and   *)
(* from then on a suspended call is not fulfilled with a frame (it is to   *)
(* resolve with ChannelHalted).                                            *)
(***************************************************************************)
C14_ConnectionLostReleasesWaiter ==
  [][ /\ ( /\ ~lost
           /\ lost'
           /\ \E i \in 1..Len(pulls) : pulls[i].st = "pending" ) => halted'
      /\ lost =>
           \A i \in 1..Len(pulls) :
             pulls[i].st = "pending" =>
               pulls'[i].st \in { "pending", "cancelled", "ChannelHalted" } ]_vars

(***************************************************************************)
(* C15.  Whenever data_received processes a completed assembler            *)
(* (remaining_bytes() = 0), the frame in progress is reset to none on      *)
(* every exit path: success, checksum failure, or an error raised while    *)
(* the frame is delivered, such as the waiter's future having been         *)
(* cancelled.  So between calls an assembler still in progress is never a  *)
(* completed one.                                                          *)
(***************************************************************************)
C15_CompletedFrameAlwaysReset ==
  frame # <<>> => remaining_bytes(frame[1]) > 0

(***************************************************************************)
(* C16.  No frame is delivered before all of its wire bytes have been      *)
(* received: after any proper prefix of a valid frame no frame has been    *)
(* delivered and the frame is still in progress, and the frame is          *)
(* delivered once the remaining bytes have arrived.  Checked on the        *)
(* streams that are one well-formed frame, under every chunking.           *)
(***************************************************************************)
C16_NoDeliveryBeforeLastByte ==
  (Len(sent) = 1 /\ sent[1].k = "good") =>
    /\ (0 < pos /\ pos < Len(wire)) =>
         /\ validated = <<>>
         /\ delivered = <<>>
         /\ frame # <<>>
         /\ remaining_bytes(frame[1]) > 0
    /\ Exhausted => Infos(delivered) = << split_response(sent[1].p) >>

\* The chunk passed by the data_received call of this step.
Chunk == SubSeq(wire, pos + 1, pos')

(***************************************************************************)
(* C17.  A data_received call made with no frame in progress:              *)
(*  - if the buffer followed by the chunk holds no start byte, the call    *)
(*    delivers nothing, creates no assembler, leaves waiter and backlog    *)
(*    alone, and the buffer becomes the old buffer followed by the chunk;  *)
(*  - if it holds one, every byte before the first start byte is           *)
(*    discarded: at least the start byte is consumed, an assembler left in *)
(*    progress begins with the start byte, and when bytes precede the      *)
(*    start byte the call ends as a call on an empty buffer that is given  *)
(*    the bytes from the first start byte on.                              *)
(***************************************************************************)
C17_NoMarkerBuffersMarkerTrims ==
  [][ (pos' > pos /\ frame = <<>>) =>
        \E d \in { data \o Chunk } :
          IF StartIndexes(d) = {}
            THEN /\ frame' = <<>>
                 /\ data' = d
                 /\ validated' = validated
                 /\ delivered' = delivered
                 /\ cblog' = cblog
                 /\ future' = future
                 /\ pulls' = pulls
                 /\ queue' = queue
            ELSE \E m \in { Min(StartIndexes(d)) } :
                   /\ Len(data') <= Len(d) - m
                   /\ frame' # <<>> => Head(frame'[1].raw_data) = START_BYTE
                   /\ m > 1 =>
                        Driver' = data_received([Driver EXCEPT !.data = <<>>],
                                                SubSeq(d, m, Len(d)))
    ]_vars

\* Noise arrived alone and is buffered: no assembler, nothing delivered.
C17_Witness ==
  /\ sent[1].k = "noise"
  /\ pos = Len(sent[1].p)
  /\ frame = <<>>
  /\ data = sent[1].p
  /\ delivered = <<>>

(***************************************************************************)
(* C18.  Whenever data_received returns normally with a frame still in     *)
(* progress, the residual buffer is empty and the assembler still needs    *)
(* bytes (remaining_bytes() > 0): leftover bytes are buffered only while   *)
(* no frame is in progress.                                                *)
(***************************************************************************)
C18_InProgressMeansBufferEmpty ==
  [][ (pos' > pos /\ raised' = "none" /\ frame' # <<>>) =>
        /\ data' = <<>>
        /\ remaining_bytes(frame'[1]) > 0 ]_vars

\* A call returned with a frame in progress whose first bytes it was given.
C18_Witness ==
  /\ raised = "none"
  /\ frame # <<>>
  /\ Len(frame[1].raw_data) >= 2
  /\ data = <<>>
  /\ pos < Len(wire)

(***************************************************************************)
(* C19.  While a frame is in progress a start byte in the incoming data    *)
(* does not restart framing: data_received feeds it to the assembler like  *)
(* any other byte, and a new assembler is created only after the current   *)
(* one has completed and been reset.  On a data_received step taken with   *)
(* an assembler that still needs bytes: the buffer left is what the fill   *)
(* loop over buffer + chunk leaves, an assembler still in progress after   *)
(* the step is the one the fill loop produced, and it extends the bytes    *)
(* the assembler already held.  Consequently, when a frame is cut short on *)
(* the wire, the start of the following frame is consumed as its payload:  *)
(* once the wire is delivered the cut frame has failed its checksum and    *)
(* the following frame has not been validated.                             *)
(***************************************************************************)
C19_MarkerInsideFrameIsPayload ==
  [][ /\ ( /\ pos' > pos
           /\ frame # <<>>
           /\ remaining_bytes(frame[1]) > 0 )
         => \E r \in { FillLoop(frame[1], data \o Chunk) } :
              /\ data' = r.d
              /\ frame' # <<>> =>
                   /\ frame'[1] = r.f
                   /\ IsPrefix(frame[1].raw_data, frame'[1].raw_data)
      /\ (sent = CutThenGood /\ pos' = Len(wire))
         => /\ validated' = <<>>
            /\ delivered' = <<>>
            /\ chkfail' = 1 ]_vars

\* The assembler of the cut frame has been fed the start byte of the frame
\* that follows it.
C19_Witness ==
  /\ sent = CutThenGood
  /\ frame # <<>>
  /\ LET n == Len(ItemBytes(sent[1], escaped))
     IN  /\ Len(frame[1].raw_data) = n + 1
         /\ frame[1].raw_data[n + 1] = START_BYTE

(***************************************************************************)
(* C20.  With a push callback registered a wait_read_frame call never      *)
(* completes: the backlog is always empty, so the call registers a waiter, *)
(* and data_received hands every frame to the callback, never to the       *)
(* waiter.  In push mode the backlog is empty, every hand-off went to the  *)
(* callback, and every wait_read_frame call made is still suspended unless *)
(* its caller cancelled it.                                                *)
(***************************************************************************)
C20_PushModePullNeverCompletes ==
  callback =>
    /\ queue = <<>>
    /\ returned = <<>>
    /\ \A i \in 1..Len(delivered) : delivered[i].to = "callback"
    /\ \A i \in 1..Len(pulls) : pulls[i].st \in { "pending", "cancelled" }

\* Push mode: a call is suspended, its waiter registered, the wire has been
\* delivered and the callback has been given a frame.
C20_Witness ==
  /\ callback
  /\ future # 0
  /\ pulls[future].st = "pending"
  /\ cblog # <<>>
  /\ Exhausted

====
